---- MODULE Spec2Model ----
(***************************************************************************)
(* Model of the Forex Factory calendar scrapers:                            *)
(*   html_to_csv.py          parse_calendar_html (row loop) and main        *)
(*   loc_scraper.py          the time step of                               *)
(*                           parse_calendar_month_from_html_debug           *)
(*   extract_html_to_csv.py  parse_time_label                               *)
(*                                                                          *)
(* Text is modelled as a sequence of one-character strings, so that strip,  *)
(* lower, the regular expressions, int() and isoformat() are computed and   *)
(* not assumed.  Python's None is the empty sequence <<>> and a value v     *)
(* that may be None is <<v>>.                                               *)
(***************************************************************************)
EXTENDS Integers, Sequences, FiniteSets, TLC

VARIABLES
    files,            \* month -> the saved page on disk (fixed during a run)
    pc,               \* "main" | "parse" | "done" | "aborted" | "time" | "timed"
                      \* | "extract_main" | "extract_done" | "extract_aborted"
    month,            \* main: the month of the for loop
    i,                \* parse_calendar_html: rows processed so far
    current_day,      \* parse_calendar_html: <<>> or <<datetime>>
    last_clock_time,  \* parse_calendar_html: <<>> or <<hh, mm>>
    data_list,        \* parse_calendar_html: the records appended so far
    src_row,          \* history: the row index each record of data_list came from
    all_dataframes,   \* main: the non-empty frames collected so far
    output,           \* main: <<>> or <<rows written to the CSV>>
    tl,               \* time step alone: the time label
    tbase,            \* time step alone: the base datetime
    tcarry,           \* time step alone: last_clock_time before the step
    tres              \* time step alone: <<>> or <<[script, raised, iso, carry]>>

vars == <<files, pc, month, i, current_day, last_clock_time, data_list, src_row,
          all_dataframes, output, tl, tbase, tcarry, tres>>

parseVars == <<i, current_day, last_clock_time, data_list, src_row>>
timeVars == <<tl, tbase, tcarry, tres>>

----------------------------------------------------------------------------
(* Bounds of the model *)

\* rows per document
MaxRows == 4

----------------------------------------------------------------------------
(* Text helpers *)

Digits == <<"0", "1", "2", "3", "4", "5", "6", "7", "8", "9">>

UpperCase == <<"A", "B", "C", "D", "E", "F", "G", "H", "I", "J", "K", "L", "M",
               "N", "O", "P", "Q", "R", "S", "T", "U", "V", "W", "X", "Y", "Z">>

LowerCase == <<"a", "b", "c", "d", "e", "f", "g", "h", "i", "j", "k", "l", "m",
               "n", "o", "p", "q", "r", "s", "t", "u", "v", "w", "x", "y", "z">>

IsDigit(c) == \E k \in 1..10 : Digits[k] = c

DigitVal(c) == (CHOOSE k \in 1..10 : Digits[k] = c) - 1

\* \s of the regular expressions and the characters str.strip() removes
IsSpace(c) == c \in {" ", "\t", "\n", "\r"}

\* int(s) for a string of decimal digits
RECURSIVE ToInt(_)
ToInt(s) ==
    IF s = <<>> THEN 0
    ELSE 10 * ToInt(SubSeq(s, 1, Len(s) - 1)) + DigitVal(s[Len(s)])

LowerChar(c) ==
    IF \E k \in 1..26 : UpperCase[k] = c
    THEN LowerCase[CHOOSE k \in 1..26 : UpperCase[k] = c]
    ELSE c

\* str.lower()
Lower(s) == [k \in 1..Len(s) |-> LowerChar(s[k])]

\* str.strip()
Strip(s) ==
    LET keep == {k \in 1..Len(s) : ~IsSpace(s[k])}
    IN IF keep = {} THEN <<>>
       ELSE LET lo == CHOOSE k \in keep : \A j \in keep : k <= j
                hi == CHOOSE k \in keep : \A j \in keep : k >= j
            IN SubSeq(s, lo, hi)

\* sep.join(parts)
RECURSIVE Join(_, _)
Join(parts, sep) ==
    IF parts = <<>> THEN <<>>
    ELSE IF Len(parts) = 1 THEN parts[1]
    ELSE parts[1] \o sep \o Join(Tail(parts), sep)

\* two decimal digits, zero padded
Pad2(n) == <<Digits[((n \div 10) % 10) + 1], Digits[(n % 10) + 1]>>

\* four decimal digits, zero padded
Pad4(n) == Pad2(n \div 100) \o Pad2(n % 100)

----------------------------------------------------------------------------
(* datetime *)

\* timedelta(hours=-8), in minutes
PstOffsetMinutes == -480

\* a variant: the daylight-saving offset, UTC-7
pdt == <<PstOffsetMinutes + 60>>

\* timezone(timedelta(hours=-8))
pst == <<PstOffsetMinutes>>

IsLeap(y) == (y % 4 = 0 /\ y % 100 /= 0) \/ y % 400 = 0

DaysInMonth(y, m) ==
    IF m = 2 THEN (IF IsLeap(y) THEN 29 ELSE 28)
    ELSE IF m \in {4, 6, 9, 11} THEN 30 ELSE 31

\* datetime(year, month, day): <<>> stands for the ValueError it raises
MakeDate(y, m, d) ==
    IF m \in 1..12 /\ d >= 1 /\ d <= DaysInMonth(y, m)
    THEN <<[year |-> y, month |-> m, day |-> d,
            hour |-> 0, minute |-> 0, second |-> 0, tzinfo |-> <<>>]>>
    ELSE <<>>

\* whether dt.replace(hour=hh, minute=mm) raises ValueError
ReplaceRaises(hh, mm) == ~(hh \in 0..23 /\ mm \in 0..59)

\* the "+HH:MM" / "-HH:MM" suffix isoformat() writes for an aware datetime
OffsetText(tz) ==
    IF tz = <<>> THEN <<>>
    ELSE LET off == tz[1]
             a == IF off < 0 THEN 0 - off ELSE off
         IN <<IF off < 0 THEN "-" ELSE "+">> \o Pad2(a \div 60) \o <<":">> \o Pad2(a % 60)

\* datetime.isoformat() (microsecond is 0 for every datetime built here)
IsoFormat(dt) ==
    Pad4(dt.year) \o <<"-">> \o Pad2(dt.month) \o <<"-">> \o Pad2(dt.day) \o <<"T">>
    \o Pad2(dt.hour) \o <<":">> \o Pad2(dt.minute) \o <<":">> \o Pad2(dt.second)
    \o OffsetText(dt.tzinfo)

\* datetime(year, month, 1).strftime("%b")
MonthAbbr(m) ==
    << <<"J","a","n">>, <<"F","e","b">>, <<"M","a","r">>, <<"A","p","r">>,
       <<"M","a","y">>, <<"J","u","n">>, <<"J","u","l">>, <<"A","u","g">>,
       <<"S","e","p">>, <<"O","c","t">>, <<"N","o","v">>, <<"D","e","c">> >>[m]

----------------------------------------------------------------------------
(* The regular expressions *)

\* re.match(r"(\d{1,2}):(\d{2})(am|pm)", s): <<>> or <<[hh, mm, ampm]>>.
\* The match is anchored at the start only; text after am/pm is ignored.
TimeMatch(s) ==
    LET fits(n) == /\ Len(s) >= n + 5
                   /\ \A k \in 1..n : IsDigit(s[k])
                   /\ s[n + 1] = ":"
                   /\ IsDigit(s[n + 2])
                   /\ IsDigit(s[n + 3])
                   /\ s[n + 4] \in {"a", "p"}
                   /\ s[n + 5] = "m"
        grp(n) == [hh |-> ToInt(SubSeq(s, 1, n)),
                   mm |-> ToInt(SubSeq(s, n + 2, n + 3)),
                   ampm |-> IF s[n + 4] = "a" THEN "am" ELSE "pm"]
    IN IF fits(2) THEN <<grp(2)>>
       ELSE IF fits(1) THEN <<grp(1)>>
       ELSE <<>>

\* re.search(rf"{month_str}\s+(\d{{1,2}})", text): <<>> or <<group(1)>>
DaySearch(month_str, text) ==
    LET n == Len(text)
        L == Len(month_str)
        \* first position after the white space that starts at q
        RECURSIVE skip(_)
        skip(q) == IF q <= n /\ IsSpace(text[q]) THEN skip(q + 1) ELSE q
        at(p) == /\ p + L - 1 <= n
                 /\ SubSeq(text, p, p + L - 1) = month_str
                 /\ p + L <= n
                 /\ IsSpace(text[p + L])
                 /\ skip(p + L) <= n
                 /\ IsDigit(text[skip(p + L)])
        hits == {p \in 1..n : at(p)}
    IN IF hits = {} THEN <<>>
       ELSE LET p == CHOOSE x \in hits : \A y \in hits : x <= y
                d == skip(p + L)
            IN IF d + 1 <= n /\ IsDigit(text[d + 1])
               THEN <<SubSeq(text, d, d + 1)>>
               ELSE <<SubSeq(text, d, d)>>

----------------------------------------------------------------------------
(* html_to_csv.py: one row of parse_calendar_html *)

\* A <tr> is [cls |-> its class tokens, id |-> its data-event-id,
\*            cells |-> the texts of its <td> cells]

AllDayText == <<"A","l","l"," ","D","a","y">>

TentativeText == <<"T","e","n","t","a","t","i","v","e">>

LowImpactText == <<"L","o","w"," ","I","m","p","a","c","t"," ",
                   "E","x","p","e","c","t","e","d">>

\* row.get_text(separator=" ").strip()
RowText(row) == Strip(Join(row.cells, <<" ">>))

HtmlIsDayBreaker(row) == "calendar__row--day-breaker" \in row.cls

\* a variant that forgets "last_clock_time = None"
HtmlDayBreakerStepNoReset(row, year, mon, day0, lct0) ==
    LET day_match == DaySearch(MonthAbbr(mon), RowText(row))
    IN IF day_match = <<>> THEN <<day0, lct0>>
       ELSE LET made == MakeDate(year, mon, ToInt(day_match[1]))
            IN IF made = <<>> THEN <<(<<>>), lct0>>
               ELSE <<made, lct0>>

\* a variant that sets current_day only while it is None
HtmlDayBreakerStepKeepsDay(row, year, mon, day0, lct0) ==
    LET day_match == DaySearch(MonthAbbr(mon), RowText(row))
    IN IF day_match = <<>> THEN <<day0, lct0>>
       ELSE LET made == MakeDate(year, mon, ToInt(day_match[1]))
            IN IF made = <<>> THEN <<(<<>>), lct0>>
               ELSE IF day0 = <<>> THEN <<made, (<<>>)>>
               ELSE <<day0, (<<>>)>>

\* The day-breaker branch: the new <<current_day, last_clock_time>>
HtmlDayBreakerStep(row, year, mon, day0, lct0) ==
    LET day_match == DaySearch(MonthAbbr(mon), RowText(row))
    IN IF day_match = <<>> THEN <<day0, lct0>>
       ELSE LET made == MakeDate(year, mon, ToInt(day_match[1]))
            IN IF made = <<>> THEN <<(<<>>), lct0>>
               ELSE <<made, (<<>>)>>

\* impact_map.get(event_id, "Low Impact Expected")
ImpactLookup(impact_map, event_id) ==
    IF event_id \in DOMAIN impact_map THEN impact_map[event_id] ELSE LowImpactText

HtmlHasDateCol(row) ==
    Len(row.cells) = 11 \/ "calendar__row--new-day" \in row.cls

\* a variant that reads a cell the row lacks as "" (as loc_scraper.py does for
\* its sixth cell)
HtmlReadCellsPadded(row) ==
    LET cells == row.cells
        off == IF HtmlHasDateCol(row) THEN 1 ELSE 0
        at(k) == IF k + off + 1 <= Len(cells) THEN Strip(cells[k + off + 1]) ELSE <<>>
    IN <<[time_text     |-> at(0),
          currency_text |-> at(1),
          event_text    |-> at(3),
          detail_text   |-> at(5),
          actual_text   |-> at(6),
          forecast_text |-> at(7),
          previous_text |-> at(8)]>>

\* cells[k].text.strip() for each field of the layout: <<>> stands for the
\* IndexError that the surrounding try turns into a skipped row
HtmlReadCells(row) ==
    LET cells == row.cells
        off == IF HtmlHasDateCol(row) THEN 1 ELSE 0
        at(k) == Strip(cells[k + off + 1])
    IN IF 8 + off >= Len(cells) THEN <<>>
       ELSE <<[time_text     |-> at(0),
               currency_text |-> at(1),
               event_text    |-> at(3),
               detail_text   |-> at(5),
               actual_text   |-> at(6),
               forecast_text |-> at(7),
               previous_text |-> at(8)]>>

\* a variant without "if not event_text: continue"
HtmlExtractKeepsUnnamed(row) ==
    IF Len(row.cells) < 5 THEN <<>>
    ELSE HtmlReadCells(row)

\* The try block of a data row: <<>> when the row is skipped (too few cells,
\* an IndexError, an empty event name), else <<the fields read>>
HtmlExtract(row) ==
    IF Len(row.cells) < 5 THEN <<>>
    ELSE LET f == HtmlReadCells(row)
         IN IF f = <<>> THEN <<>>
            ELSE IF f[1].event_text = <<>> THEN <<>>
            ELSE f

\* 12-hour to 24-hour
HtmlHour24(hh, ampm) ==
    IF ampm = "pm" /\ hh < 12 THEN hh + 12
    ELSE IF ampm = "am" /\ hh = 12 THEN 0
    ELSE hh

\* last_clock_time after "if last_clock_time is None: last_clock_time = (0, 0)"
HtmlDefaultClock(lct0) == IF lct0 = <<>> THEN <<0, 0>> ELSE lct0

\* a variant whose "All Day" branch leaves last_clock_time as it is
HtmlTimeStepAllDayKeepsClock(time_text, day, lct0) ==
    LET lct == HtmlDefaultClock(lct0)
        m == TimeMatch(Lower(time_text))
        at(hh, mm, carry) ==
            [raised |-> FALSE,
             event_dt |-> <<[day EXCEPT !.hour = hh, !.minute = mm, !.second = 0,
                                        !.tzinfo = pst]>>,
             last_clock_time |-> carry]
    IN IF time_text /= <<>> /\ time_text \notin {AllDayText, TentativeText}
       THEN IF m /= <<>>
            THEN LET hh == HtmlHour24(m[1].hh, m[1].ampm)
                     mm == m[1].mm
                 IN IF ReplaceRaises(hh, mm)
                    THEN [raised |-> TRUE, event_dt |-> <<>>, last_clock_time |-> lct]
                    ELSE at(hh, mm, <<hh, mm>>)
            ELSE at(lct[1], lct[2], lct)
       ELSE IF time_text = AllDayText
       THEN at(0, 0, lct)
       ELSE at(lct[1], lct[2], lct)

\* "Parse time and create datetime": the event's datetime and the new
\* last_clock_time, or raised when datetime.replace raises ValueError
HtmlTimeStep(time_text, day, lct0) ==
    LET lct == HtmlDefaultClock(lct0)
        m == TimeMatch(Lower(time_text))
        at(hh, mm, carry) ==
            [raised |-> FALSE,
             event_dt |-> <<[day EXCEPT !.hour = hh, !.minute = mm, !.second = 0,
                                        !.tzinfo = pst]>>,
             last_clock_time |-> carry]
    IN IF time_text /= <<>> /\ time_text \notin {AllDayText, TentativeText}
       THEN IF m /= <<>>
            THEN LET hh == HtmlHour24(m[1].hh, m[1].ampm)
                     mm == m[1].mm
                 IN IF ReplaceRaises(hh, mm)
                    THEN [raised |-> TRUE, event_dt |-> <<>>, last_clock_time |-> lct]
                    ELSE at(hh, mm, <<hh, mm>>)
            ELSE at(lct[1], lct[2], lct)
       ELSE IF time_text = AllDayText
       THEN at(0, 0, <<0, 0>>)
       ELSE at(lct[1], lct[2], lct)

\* the dict appended to data_list
HtmlRecord(event_dt, impact, f) ==
    [DateTime |-> IsoFormat(event_dt),
     Currency |-> f.currency_text,
     Impact   |-> impact,
     Event    |-> f.event_text,
     Actual   |-> f.actual_text,
     Forecast |-> f.forecast_text,
     Previous |-> f.previous_text,
     Detail   |-> f.detail_text]

----------------------------------------------------------------------------
(* The texts and rows of the model *)

\* '5:00pm'
T_5_00pm == <<"5",":","0","0","p","m">>

\* '8:30am'
T_8_30am == <<"8",":","3","0","a","m">>

\* '24:00am'
T_24_00am == <<"2","4",":","0","0","a","m">>

\* '5:75pm'
T_5_75pm == <<"5",":","7","5","p","m">>

\* 'Day 1'
T_Day1 == <<"D","a","y"," ","1">>

\* 'Day 2'
T_Day2 == <<"D","a","y"," ","2">>

\* 'Day 3'
T_Day3 == <<"D","a","y"," ","3">>

\* 'USD'
T_USD == <<"U","S","D">>

\* ' USD '
T_USD_padded == <<" ","U","S","D"," ">>

\* 'High Impact Expected'
T_HighImpact == <<"H","i","g","h"," ","I","m","p","a","c","t"," ","E","x","p","e","c","t","e","d">>

\* 'Non-Farm Payrolls'
T_NFP == <<"N","o","n","-","F","a","r","m"," ","P","a","y","r","o","l","l","s">>

\* 'CPI'
T_CPI == <<"C","P","I">>

\* '  '
T_Blank == <<" "," ">>

\* '180K'
T_180K == <<"1","8","0","K">>

\* '175K'
T_175K == <<"1","7","5","K">>

\* '190K'
T_190K == <<"1","9","0","K">>

\* 'Jun 5'
T_Jun5 == <<"J","u","n"," ","5">>

\* 'Thu Jun  6'
T_Jun6 == <<"T","h","u"," ","J","u","n"," "," ","6">>

\* 'Fri 6'
T_Fri6 == <<"F","r","i"," ","6">>

\* 'Jun 31'
T_Jun31 == <<"J","u","n"," ","3","1">>

\* 'Jul 1'
T_Jul1 == <<"J","u","l"," ","1">>

\* ' 1', the day after a month name
T_Day == <<" ","1">>

\* 'Thu'
T_Thu == <<"T","h","u">>

\* <tr class="calendar__row calendar__row--day-breaker"> with the given text
DayBreakerRow(text) ==
    [cls |-> {"calendar__row", "calendar__row--day-breaker"}, id |-> "", cells |-> <<text>>]

\* a regular row of 10 cells:
\*   0 Time, 1 Currency, 2 Impact, 3 Event, 4 Sub, 5 Detail, 6 Actual, 7 Forecast,
\*   8 Previous, 9 Graph
RegularRow(id, time, event) ==
    [cls |-> {"calendar__row"}, id |-> id,
     cells |-> <<time, T_USD_padded, <<>>, event, <<>>, <<>>, T_180K, T_190K, T_175K, <<>>>>]

\* the data row of the end-to-end example: 8 cells
ExampleRow8 ==
    [cls |-> {"calendar__row"}, id |-> "101",
     cells |-> <<T_5_00pm, T_USD, T_HighImpact, T_NFP, <<>>, T_180K, T_175K, T_190K>>]

\* the same event as the page lays a regular row out
ExampleRow10 == RegularRow("101", T_5_00pm, T_NFP)

\* a new-day row of 11 cells: the date cell first
NewDayRow11 ==
    [cls |-> {"calendar__row", "calendar__row--new-day"}, id |-> "102",
     cells |-> <<T_Thu, T_8_30am, T_USD, <<>>, T_CPI, <<>>, <<>>, T_180K, T_190K, T_175K, <<>>>>]

\* 11 cells without the new-day class
PlainRow11 == [NewDayRow11 EXCEPT !.cls = {"calendar__row"}]

\* the new-day class on 10 and on 9 cells
NewDayRow10 == [NewDayRow11 EXCEPT !.cells = SubSeq(NewDayRow11.cells, 1, 10)]

NewDayRow9 == [NewDayRow11 EXCEPT !.cells = SubSeq(NewDayRow11.cells, 1, 9)]

\* a spacer row
BlankRow2 == [cls |-> {"calendar__row"}, id |-> "", cells |-> <<(<<>>), (<<>>)>>]

\* 10 cells, the event name blank
NoEventRow == RegularRow("103", T_8_30am, T_Blank)

\* a <tr> that is not a calendar row
OtherRow == [cls |-> {}, id |-> "", cells |-> <<T_Jun6>>]

\* The rows of the model, by name: a page holds the names of its rows, in order
RowNames ==
    {"jun5", "jun6", "fri6", "jun31", "jul1", "aug1", "sep1", "oct1", "nov1", "dec1",
     "t_5pm", "t_830am", "t_none", "t_allday", "t_tentative", "t_day1", "t_24am",
     "example8", "example10", "newday11", "plain11", "newday10", "newday9",
     "blank2", "noevent", "other"}

RowOf(name) ==
    CASE name = "jun5" -> DayBreakerRow(T_Jun5)
      [] name = "jun6" -> DayBreakerRow(T_Jun6)
      [] name = "fri6" -> DayBreakerRow(T_Fri6)
      [] name = "jun31" -> DayBreakerRow(T_Jun31)
      [] name = "jul1" -> DayBreakerRow(T_Jul1)
      [] name = "aug1" -> DayBreakerRow(MonthAbbr(8) \o T_Day)
      [] name = "sep1" -> DayBreakerRow(MonthAbbr(9) \o T_Day)
      [] name = "oct1" -> DayBreakerRow(MonthAbbr(10) \o T_Day)
      [] name = "nov1" -> DayBreakerRow(MonthAbbr(11) \o T_Day)
      [] name = "dec1" -> DayBreakerRow(MonthAbbr(12) \o T_Day)
      [] name = "t_5pm" -> RegularRow("101", T_5_00pm, T_CPI)
      [] name = "t_830am" -> RegularRow("101", T_8_30am, T_CPI)
      [] name = "t_none" -> RegularRow("101", <<>>, T_CPI)
      [] name = "t_allday" -> RegularRow("101", AllDayText, T_CPI)
      [] name = "t_tentative" -> RegularRow("101", TentativeText, T_CPI)
      [] name = "t_day1" -> RegularRow("101", T_Day1, T_CPI)
      [] name = "t_24am" -> RegularRow("101", T_24_00am, T_CPI)
      [] name = "example8" -> ExampleRow8
      [] name = "example10" -> ExampleRow10
      [] name = "newday11" -> NewDayRow11
      [] name = "plain11" -> PlainRow11
      [] name = "newday10" -> NewDayRow10
      [] name = "newday9" -> NewDayRow9
      [] name = "blank2" -> BlankRow2
      [] name = "noevent" -> NoEventRow
      [] name = "other" -> OtherRow

\* rows that differ in their time label
ClockRows ==
    {"t_5pm", "t_830am", "t_none", "t_allday", "t_tentative", "t_day1", "t_24am"}

\* rows that differ in their day breaker
BreakerRows == {"jun5", "jun6", "fri6", "jun31"}

\* rows that differ in their layout
LayoutRows ==
    {"example8", "example10", "newday11", "plain11", "newday10", "newday9",
     "blank2", "noevent", "other", "t_24am"}

----------------------------------------------------------------------------
(* html_to_csv.py: main *)

Year == 2025

FirstMonth == 6

LastMonth == 12

\* sorted(html_files.items()): the months in ascending order
HtmlMonths == FirstMonth..LastMonth

\* soup.find_all("tr", class_="calendar__row")
CalendarRows(file) ==
    SelectSeq(file.rows, LAMBDA name : "calendar__row" \in RowOf(name).cls)

\* pd.to_datetime(DateTime): seconds of the instant, counted from 2000-01-01T00:00Z
RECURSIVE DaysBeforeYear(_)
DaysBeforeYear(y) ==
    IF y <= 2000 THEN 0
    ELSE DaysBeforeYear(y - 1) + (IF IsLeap(y - 1) THEN 366 ELSE 365)

RECURSIVE DaysBeforeMonth(_, _)
DaysBeforeMonth(y, m) ==
    IF m <= 1 THEN 0 ELSE DaysBeforeMonth(y, m - 1) + DaysInMonth(y, m - 1)

ToDatetime(iso) ==
    LET num(a, b) == ToInt(SubSeq(iso, a, b))
        days == DaysBeforeYear(num(1, 4)) + DaysBeforeMonth(num(1, 4), num(6, 7))
                + num(9, 10) - 1
        local == ((days * 24 + num(12, 13)) * 60 + num(15, 16)) * 60 + num(18, 19)
        off == IF Len(iso) >= 25
               THEN (IF iso[20] = "-" THEN -1 ELSE 1) * (num(21, 22) * 60 + num(24, 25))
               ELSE 0
    IN local - off * 60

\* pd.concat(all_dataframes, ignore_index=True)
RECURSIVE Concat(_)
Concat(frames) ==
    IF frames = <<>> THEN <<>> ELSE frames[1] \o Concat(Tail(frames))

\* The row orders sort_values('DateTime_sort') may produce: ascending keys; the
\* default kind is quicksort, which does not promise an order among equal keys
RECURSIVE SortedOrders(_, _)
SortedOrders(df, left) ==
    IF left = {} THEN {<<>>}
    ELSE LET least == {k \in left :
                         \A j \in left : ToDatetime(df[k].DateTime) <= ToDatetime(df[j].DateTime)}
         IN UNION {{<<df[k]>> \o rest : rest \in SortedOrders(df, left \ {k})} : k \in least}

----------------------------------------------------------------------------
(* Actions of html_to_csv.py *)

RowNamesOf(m) == CalendarRows(files[m])

\* rows of the page being parsed, and the row the loop is at
NumRows == Len(RowNamesOf(month))

RowAt(m, k) == RowOf(RowNamesOf(m)[k])

CurRow == RowAt(month, i + 1)

\* if not os.path.exists(filepath): continue
MainFileMissing ==
    /\ pc = "main"
    /\ month \in HtmlMonths
    /\ ~files[month].exists
    /\ month' = month + 1
    /\ UNCHANGED <<files, pc, parseVars, all_dataframes, output, timeVars>>

\* parse_calendar_html: open/read fails, an empty frame is returned and main
\* does not keep it
MainReadFails ==
    /\ pc = "main"
    /\ month \in HtmlMonths
    /\ files[month].exists
    /\ ~files[month].readable
    /\ month' = month + 1
    /\ UNCHANGED <<files, pc, parseVars, all_dataframes, output, timeVars>>

\* parse_calendar_html up to the row loop
ParseStart ==
    /\ pc = "main"
    /\ month \in HtmlMonths
    /\ files[month].exists
    /\ files[month].readable
    /\ pc' = "parse"
    /\ i' = 0
    /\ current_day' = <<>>
    /\ last_clock_time' = <<>>
    /\ data_list' = <<>>
    /\ src_row' = <<>>
    /\ UNCHANGED <<files, month, all_dataframes, output, timeVars>>

\* a day-breaker row
ParseDayBreaker ==
    /\ pc = "parse"
    /\ i < NumRows
    /\ HtmlIsDayBreaker(CurRow)
    /\ LET r == HtmlDayBreakerStep(CurRow, Year, month, current_day, last_clock_time)
       IN /\ current_day' = r[1]
          /\ last_clock_time' = r[2]
    /\ i' = i + 1
    /\ UNCHANGED <<files, pc, month, data_list, src_row, all_dataframes, output, timeVars>>

\* a row skipped: no current day, too few cells, an exception, no event name
ParseSkipRow ==
    /\ pc = "parse"
    /\ i < NumRows
    /\ ~HtmlIsDayBreaker(CurRow)
    /\ current_day = <<>> \/ HtmlExtract(CurRow) = <<>>
    /\ i' = i + 1
    /\ UNCHANGED <<files, pc, month, current_day, last_clock_time, data_list, src_row,
                   all_dataframes, output, timeVars>>

\* a data row appended to data_list
ParseAppendRow ==
    /\ pc = "parse"
    /\ i < NumRows
    /\ ~HtmlIsDayBreaker(CurRow)
    /\ current_day /= <<>>
    /\ HtmlExtract(CurRow) /= <<>>
    /\ LET row == CurRow
           f == HtmlExtract(row)[1]
           t == HtmlTimeStep(f.time_text, current_day[1], last_clock_time)
       IN /\ ~t.raised
          /\ last_clock_time' = t.last_clock_time
          /\ data_list' = Append(data_list,
                 HtmlRecord(t.event_dt[1], ImpactLookup(files[month].impact_map, row.id), f))
    /\ src_row' = Append(src_row, i + 1)
    /\ i' = i + 1
    /\ UNCHANGED <<files, pc, month, current_day, all_dataframes, output, timeVars>>

\* a data row whose time makes datetime.replace raise: nothing catches the
\* ValueError, neither in parse_calendar_html nor in main
ParseTimeRaises ==
    /\ pc = "parse"
    /\ i < NumRows
    /\ ~HtmlIsDayBreaker(CurRow)
    /\ current_day /= <<>>
    /\ HtmlExtract(CurRow) /= <<>>
    /\ LET f == HtmlExtract(CurRow)[1]
           t == HtmlTimeStep(f.time_text, current_day[1], last_clock_time)
       IN /\ t.raised
          /\ last_clock_time' = t.last_clock_time
    /\ pc' = "aborted"
    /\ UNCHANGED <<files, month, i, current_day, data_list, src_row, all_dataframes,
                   output, timeVars>>

\* return pd.DataFrame(data_list); main keeps the frame if it is not empty
ParseReturn ==
    /\ pc = "parse"
    /\ i = NumRows
    /\ pc' = "main"
    /\ all_dataframes' = IF data_list /= <<>> THEN Append(all_dataframes, data_list)
                         ELSE all_dataframes
    /\ month' = month + 1
    /\ UNCHANGED <<files, parseVars, output, timeVars>>

\* concat, sort by DateTime, to_csv
MainWriteCsv ==
    /\ pc = "main"
    /\ month \notin HtmlMonths
    /\ all_dataframes /= <<>>
    /\ LET combined_df == Concat(all_dataframes)
       IN \E sorted \in SortedOrders(combined_df, 1..Len(combined_df)) :
              output' = <<sorted>>
    /\ pc' = "done"
    /\ UNCHANGED <<files, month, parseVars, all_dataframes, timeVars>>

\* print("Error: No data was extracted from any files")
MainNoData ==
    /\ pc = "main"
    /\ month \notin HtmlMonths
    /\ all_dataframes = <<>>
    /\ pc' = "done"
    /\ UNCHANGED <<files, month, parseVars, all_dataframes, output, timeVars>>

Next ==
    \/ MainFileMissing
    \/ MainReadFails
    \/ ParseStart
    \/ ParseDayBreaker
    \/ ParseSkipRow
    \/ ParseAppendRow
    \/ ParseTimeRaises
    \/ ParseReturn
    \/ MainWriteCsv
    \/ MainNoData

----------------------------------------------------------------------------
(* The pages of the model *)

\* all sequences over S of length 0..n
SeqsUpTo(S, n) == UNION {[1..k -> S] : k \in 0..n}

\* the impact titles extract_json_data finds in the page
PageImpactMap == [k \in {"101"} |-> T_HighImpact]

\* a saved page: its <tr> rows, the impact titles and the events of its
\* embedded calendarComponentStates object
Page(rows) == [exists |-> TRUE, readable |-> TRUE, rows |-> rows,
               impact_map |-> PageImpactMap, events |-> <<>>]

MissingPage == [exists |-> FALSE, readable |-> FALSE, rows |-> <<>>,
                impact_map |-> [k \in {} |-> <<>>], events |-> <<>>]

UnreadablePage == [MissingPage EXCEPT !.exists = TRUE]

JulyPage == Page(<<"jul1", "t_830am">>)

\* the June pages of the model: a first day breaker and rows that differ in
\* their time label; rows and day breakers in any order; a first day breaker
\* and rows that differ in their layout
JunePages ==
    {MissingPage, UnreadablePage}
    \cup {Page(<<"jun5">> \o rows) : rows \in SeqsUpTo(ClockRows, MaxRows - 1)}
    \cup {Page(rows) : rows \in SeqsUpTo(BreakerRows \cup {"t_5pm", "t_none", "t_day1"}, MaxRows)}
    \cup {Page(<<"jun5">> \o rows) : rows \in SeqsUpTo(LayoutRows, MaxRows - 2)}

\* June pages that are followed by a July page
JunePagesBeforeJuly ==
    {MissingPage, UnreadablePage}
    \cup {Page(rows) : rows \in SeqsUpTo({"jun5", "t_5pm", "t_24am", "blank2"}, MaxRows - 1)}

Disk(june, july) ==
    [m \in HtmlMonths |-> IF m = FirstMonth THEN june
                          ELSE IF m = FirstMonth + 1 THEN july
                          ELSE MissingPage]

Init ==
    /\ files \in {Disk(june, MissingPage) : june \in JunePages}
                 \cup {Disk(june, JulyPage) : june \in JunePagesBeforeJuly}
    /\ pc = "main"
    /\ month = FirstMonth
    /\ i = 0
    /\ current_day = <<>>
    /\ last_clock_time = <<>>
    /\ data_list = <<>>
    /\ src_row = <<>>
    /\ all_dataframes = <<>>
    /\ output = <<>>
    /\ tl = <<>>
    /\ tbase = <<>>
    /\ tcarry = <<>>
    /\ tres = <<>>

Spec == Init /\ [][Next]_vars

----------------------------------------------------------------------------
(* loc_scraper.py: the time step of parse_calendar_month_from_html_debug *)

\* a variant with the two ifs in the other order: 12am becomes 0 and then nothing,
\* but 12pm is compared with <= and becomes 24
LocHour24Le(hh, ampm) ==
    LET h1 == IF ampm = "am" /\ hh = 12 THEN 0 ELSE hh
    IN IF ampm = "pm" /\ h1 <= 12 THEN h1 + 12 ELSE h1

\* 12-hour to 24-hour: two separate ifs
LocHour24(hh, ampm) ==
    LET h1 == IF ampm = "pm" /\ hh < 12 THEN hh + 12 ELSE hh
    IN IF ampm = "am" /\ h1 = 12 THEN 0 ELSE h1

\* "Compute datetime": no tzinfo is attached and second is left as it is
LocTimeStep(time_text, day, lct0) ==
    LET lct == IF lct0 = <<>> THEN <<0, 0>> ELSE lct0
        m == TimeMatch(Lower(time_text))
        at(hh, mm, carry) ==
            [raised |-> FALSE,
             event_dt |-> <<[day EXCEPT !.hour = hh, !.minute = mm]>>,
             last_clock_time |-> carry]
    IN IF time_text /= <<>>
       THEN IF m /= <<>>
            THEN LET hh == LocHour24(m[1].hh, m[1].ampm)
                     mm == m[1].mm
                 IN IF ReplaceRaises(hh, mm)
                    THEN [raised |-> TRUE, event_dt |-> <<>>, last_clock_time |-> lct]
                    ELSE at(hh, mm, <<hh, mm>>)
            ELSE at(lct[1], lct[2], lct)
       ELSE at(lct[1], lct[2], lct)

----------------------------------------------------------------------------
(* extract_html_to_csv.py: parse_time_label *)

\* 12-hour to 24-hour
ExtractHour24(hh, ampm) ==
    IF ampm = "pm" /\ hh < 12 THEN hh + 12
    ELSE IF ampm = "am" /\ hh = 12 THEN 0
    ELSE hh

\* the labels that default to midnight
MidnightLabels == {AllDayText, TentativeText, T_Day1, T_Day2, T_Day3}

\* a variant whose midnight default leaves second as it is
ParseTimeLabelKeepsSecond(time_label, base_date) ==
    LET midnight == <<[base_date EXCEPT !.hour = 0, !.minute = 0, !.tzinfo = pst]>>
        m == TimeMatch(Lower(time_label))
    IN IF time_label = <<>> \/ time_label \in MidnightLabels THEN midnight
       ELSE IF m /= <<>>
       THEN LET hh == ExtractHour24(m[1].hh, m[1].ampm)
                mm == m[1].mm
            IN IF ReplaceRaises(hh, mm) THEN <<>>
               ELSE <<[base_date EXCEPT !.hour = hh, !.minute = mm, !.second = 0,
                                        !.tzinfo = pst]>>
       ELSE midnight

\* parse_time_label(time_label, base_date): <<>> stands for the ValueError of
\* datetime.replace, else <<the datetime returned>>
ParseTimeLabel(time_label, base_date) ==
    LET midnight == <<[base_date EXCEPT !.hour = 0, !.minute = 0, !.second = 0,
                                        !.tzinfo = pst]>>
        m == TimeMatch(Lower(time_label))
    IN IF time_label = <<>> \/ time_label \in MidnightLabels THEN midnight
       ELSE IF m /= <<>>
       THEN LET hh == ExtractHour24(m[1].hh, m[1].ampm)
                mm == m[1].mm
            IN IF ReplaceRaises(hh, mm) THEN <<>>
               ELSE <<[base_date EXCEPT !.hour = hh, !.minute = mm, !.second = 0,
                                        !.tzinfo = pst]>>
       ELSE midnight

----------------------------------------------------------------------------
(* The time step of the three scripts on its own: a label, a date and a   *)
(* last_clock_time are drawn, and each script's step is applied to them.  *)

\* am and pm in every letter case
Suffixes ==
    {<<a, b>> : a \in {"a", "A"}, b \in {"m", "M"}}
    \cup {<<a, b>> : a \in {"p", "P"}, b \in {"m", "M"}}

HourText(h) == IF h < 10 THEN <<Digits[h + 1]>> ELSE Pad2(h)

\* every label H:MM(am|pm) with hour 1..12 and minute 0..59
ValidClockLabels ==
    {HourText(h) \o <<":">> \o Pad2(m) \o suf : h \in 1..12, m \in 0..59, suf \in Suffixes}

\* 'Tentative '
T_TentativePadded == <<"T","e","n","t","a","t","i","v","e"," ">>

\* ' All Day'
T_AllDayPadded == <<" ","A","l","l"," ","D","a","y">>

\* '13:05pm'
T_13_05pm == <<"1","3",":","0","5","p","m">>

\* '0:15am'
T_0_15am == <<"0",":","1","5","a","m">>

\* '5:00pm est'
T_5pmEst == <<"5",":","0","0","p","m"," ","e","s","t">>

\* 'noon'
T_Noon == <<"n","o","o","n">>

\* labels that are not of that form, or not valid
OtherLabels ==
    MidnightLabels
    \cup {<<>>, T_5_00pm, T_8_30am, T_24_00am, T_5_75pm, T_TentativePadded,
          T_AllDayPadded, T_13_05pm, T_0_15am, T_5pmEst, T_Noon}

\* a naive datetime
DateTimeOf(y, m, d, hh, mm, ss) ==
    [year |-> y, month |-> m, day |-> d, hour |-> hh, minute |-> mm, second |-> ss,
     tzinfo |-> <<>>]

\* every date of the year, at midnight
DatesOfYear ==
    {DateTimeOf(Year, md[1], md[2], 0, 0, 0) :
        md \in {x \in (1..12) \X (1..31) : x[2] <= DaysInMonth(Year, x[1])}}

\* datetime.fromtimestamp(dateline) for a dateline that is not a local midnight
AfternoonBase == DateTimeOf(Year, 6, 5, 16, 30, 15)

\* last_clock_time before the step
CarryTimes == {<<>>, <<0, 0>>, <<8, 30>>, <<17, 0>>}

InitTime ==
    /\ \/ /\ tl \in ValidClockLabels
          /\ tbase = AfternoonBase
          /\ tcarry \in {<<>>, <<8, 30>>}
       \/ /\ tl \in OtherLabels
          /\ tbase \in DatesOfYear
          /\ tcarry \in {<<>>, <<17, 0>>}
       \/ /\ tl \in OtherLabels
          /\ tbase = AfternoonBase
          /\ tcarry \in CarryTimes
    /\ tres = <<>>
    /\ pc = "time"
    /\ files = Disk(MissingPage, MissingPage)
    /\ month = FirstMonth
    /\ i = 0
    /\ current_day = <<>>
    /\ last_clock_time = <<>>
    /\ data_list = <<>>
    /\ src_row = <<>>
    /\ all_dataframes = <<>>
    /\ output = <<>>

mainVars == <<files, month, parseVars, all_dataframes, output>>

\* what a step leaves: the ISO text of the record, the new last_clock_time
StepResult(script, t) ==
    <<[script |-> script,
       raised |-> t.raised,
       iso |-> IF t.raised THEN <<>> ELSE IsoFormat(t.event_dt[1]),
       carry |-> t.last_clock_time]>>

\* current_day = datetime(year, month, day_num)
DayOf(base) == MakeDate(base.year, base.month, base.day)[1]

\* html_to_csv.py: cells[k].text.strip(), the time step, isoformat()
TimeHtml ==
    /\ pc = "time"
    /\ tres' = StepResult("html", HtmlTimeStep(Strip(tl), DayOf(tbase), tcarry))
    /\ pc' = "timed"
    /\ UNCHANGED <<mainVars, tl, tbase, tcarry>>

\* loc_scraper.py: cells[0].text.strip(), the time step, isoformat()
TimeLoc ==
    /\ pc = "time"
    /\ tres' = StepResult("loc", LocTimeStep(Strip(tl), DayOf(tbase), tcarry))
    /\ pc' = "timed"
    /\ UNCHANGED <<mainVars, tl, tbase, tcarry>>

\* extract_html_to_csv.py: parse_time_label(event['time_label'], base_date), isoformat()
TimeExtract ==
    /\ pc = "time"
    /\ LET dt == ParseTimeLabel(tl, tbase)
       IN tres' = StepResult("extract",
                     [raised |-> dt = <<>>, event_dt |-> dt, last_clock_time |-> <<>>])
    /\ pc' = "timed"
    /\ UNCHANGED <<mainVars, tl, tbase, tcarry>>

NextTime == TimeHtml \/ TimeLoc \/ TimeExtract

SpecTime == InitTime /\ [][NextTime]_vars

----------------------------------------------------------------------------
(* extract_html_to_csv.py: parse_calendar_html and main *)

\* the zone of the machine the script runs on, in seconds east of UTC:
\* datetime.fromtimestamp(dateline) gives that zone's wall clock
LocalOffsetSeconds == -28800

\* days from 1970-01-01 to the given date
EpochDay(y, m, d) == 10957 + DaysBeforeYear(y) + DaysBeforeMonth(y, m) + d - 1

\* datetime.fromtimestamp(dateline): a naive datetime, for datelines from 2000 on
FromTimestamp(dateline) ==
    LET local == dateline + LocalOffsetSeconds
        days == (local \div 86400) - 10957
        secs == local % 86400
        ylen(y) == IF IsLeap(y) THEN 366 ELSE 365
        RECURSIVE yr(_, _)
        yr(y, d) == IF d < ylen(y) THEN <<y, d>> ELSE yr(y + 1, d - ylen(y))
        RECURSIVE mo(_, _, _)
        mo(y, m, d) == IF d < DaysInMonth(y, m) THEN <<m, d + 1>>
                       ELSE mo(y, m + 1, d - DaysInMonth(y, m))
        yd == yr(2000, days)
        md == mo(yd[1], 1, yd[2])
    IN DateTimeOf(yd[1], md[1], md[2], secs \div 3600, (secs \div 60) % 60, secs % 60)

\* an entry of the events_list extract_events_from_json returns: the page names
\* its events <<month, key>>; the day's dateline is that day's local midnight
EventOf(e) ==
    LET m == e[1]
        d == IF m = FirstMonth THEN 5 ELSE 1
    IN [dateline   |-> EpochDay(Year, m, d) * 86400 - LocalOffsetSeconds,
        event_id   |-> IF e[2] = "nfp" THEN "101" ELSE "102",
        name       |-> IF e[2] = "nfp" THEN T_NFP ELSE T_CPI,
        currency   |-> T_USD,
        impact     |-> T_HighImpact,
        time_label |-> IF e[2] = "bad" THEN T_24_00am
                       ELSE IF m = FirstMonth THEN T_5_00pm ELSE T_8_30am,
        actual     |-> T_180K,
        previous   |-> T_175K,
        forecast   |-> T_190K]

\* the dict appended to data_list for one event; <<>> if parse_time_label raises
ExtractRecord(event) ==
    LET event_dt == ParseTimeLabel(event.time_label, FromTimestamp(event.dateline))
    IN IF event_dt = <<>> THEN <<>>
       ELSE <<[DateTime |-> IsoFormat(event_dt[1]),
               Currency |-> event.currency,
               Impact   |-> event.impact,
               Event    |-> event.name,
               Actual   |-> event.actual,
               Forecast |-> event.forecast,
               Previous |-> event.previous,
               Detail   |-> <<>>]>>

\* parse_calendar_html after the read: the loop over events_list.  Nothing
\* catches the ValueError of parse_time_label.
RECURSIVE ExtractDataList(_)
ExtractDataList(events) ==
    IF events = <<>> THEN [raised |-> FALSE, data_list |-> <<>>]
    ELSE LET rec == ExtractRecord(EventOf(Head(events)))
             rest == ExtractDataList(Tail(events))
         IN IF rec = <<>> THEN [raised |-> TRUE, data_list |-> <<>>]
            ELSE [raised |-> rest.raised,
                  data_list |-> IF rest.raised THEN <<>> ELSE rec \o rest.data_list]

\* combined_df.drop_duplicates(): the first of equal rows is kept
RECURSIVE DropDuplicates(_)
DropDuplicates(df) ==
    IF df = <<>> THEN <<>>
    ELSE LET front == DropDuplicates(SubSeq(df, 1, Len(df) - 1))
             last == df[Len(df)]
         IN IF \E k \in 1..Len(front) : front[k] = last THEN front
            ELSE Append(front, last)

\* if not os.path.exists(filepath): continue
ExtractFileMissing ==
    /\ pc = "extract_main"
    /\ month \in HtmlMonths
    /\ ~files[month].exists
    /\ month' = month + 1
    /\ UNCHANGED <<files, pc, parseVars, all_dataframes, output, timeVars>>

\* parse_calendar_html: the read fails, an empty frame comes back
ExtractReadFails ==
    /\ pc = "extract_main"
    /\ month \in HtmlMonths
    /\ files[month].exists
    /\ ~files[month].readable
    /\ month' = month + 1
    /\ UNCHANGED <<files, pc, parseVars, all_dataframes, output, timeVars>>

\* parse_calendar_html returns a frame; main keeps it if it is not empty
ExtractParse ==
    /\ pc = "extract_main"
    /\ month \in HtmlMonths
    /\ files[month].exists
    /\ files[month].readable
    /\ LET r == ExtractDataList(files[month].events)
       IN /\ ~r.raised
          /\ data_list' = r.data_list
          /\ all_dataframes' = IF r.data_list /= <<>>
                               THEN Append(all_dataframes, r.data_list)
                               ELSE all_dataframes
    /\ month' = month + 1
    /\ UNCHANGED <<files, pc, i, current_day, last_clock_time, src_row, output, timeVars>>

\* parse_time_label raises for an event of the page: the run ends there
ExtractParseRaises ==
    /\ pc = "extract_main"
    /\ month \in HtmlMonths
    /\ files[month].exists
    /\ files[month].readable
    /\ ExtractDataList(files[month].events).raised
    /\ pc' = "extract_aborted"
    /\ UNCHANGED <<files, month, parseVars, all_dataframes, output, timeVars>>

\* concat, drop_duplicates, sort by DateTime, to_csv
ExtractWriteCsv ==
    /\ pc = "extract_main"
    /\ month \notin HtmlMonths
    /\ all_dataframes /= <<>>
    /\ LET combined_df == DropDuplicates(Concat(all_dataframes))
       IN \E sorted \in SortedOrders(combined_df, 1..Len(combined_df)) :
              output' = <<sorted>>
    /\ pc' = "extract_done"
    /\ UNCHANGED <<files, month, parseVars, all_dataframes, timeVars>>

\* print("Error: No data was extracted from any files")
ExtractNoData ==
    /\ pc = "extract_main"
    /\ month \notin HtmlMonths
    /\ all_dataframes = <<>>
    /\ pc' = "extract_done"
    /\ UNCHANGED <<files, month, parseVars, all_dataframes, output, timeVars>>

----------------------------------------------------------------------------
(* main of html_to_csv.py and of extract_html_to_csv.py over the seven     *)
(* documents: every subset of them missing, unreadable or without records *)

\* a page with events: two at one time in June, one of them also in July's
\* page next to another at the same time
GoodPage(m) ==
    [Page(IF m = 6 THEN <<"jun5", "example10", "t_5pm">>
          ELSE << <<"jul1", "aug1", "sep1", "oct1", "nov1", "dec1">>[m - 6], "t_830am">>)
     EXCEPT !.events = IF m = 6 THEN << <<6, "nfp">>, <<6, "cpi">>, <<7, "cpi">> >>
                       ELSE IF m = 7 THEN << <<7, "nfp">>, <<7, "cpi">> >>
                       ELSE << <<m, "cpi">> >>]

\* a page that gives no record: a spacer row and a row before any day breaker
EmptyPage == Page(<<"blank2", "t_5pm">>)

\* a page with a time label of hour 24
RaisingPage(m) ==
    [Page(<< <<"jun5", "jul1", "aug1", "sep1", "oct1", "nov1", "dec1">>[m - 5], "t_24am">>)
     EXCEPT !.events = << <<m, "bad">> >>]

\* the pages that are skipped, in three rotations over the months
SkippedPage(m, o) == <<MissingPage, UnreadablePage, EmptyPage>>[((m + o) % 3) + 1]

MainDisks ==
    {[m \in HtmlMonths |-> IF m \in skipped THEN SkippedPage(m, o) ELSE GoodPage(m)] :
        skipped \in SUBSET HtmlMonths, o \in 0..2}
    \cup {[m \in HtmlMonths |-> IF m = r THEN RaisingPage(m) ELSE other[m]] :
            r \in HtmlMonths,
            other \in {[m \in HtmlMonths |-> GoodPage(m)],
                       [m \in HtmlMonths |-> MissingPage],
                       [m \in HtmlMonths |-> IF m % 2 = 0 THEN SkippedPage(m, 0)
                                             ELSE GoodPage(m)]}}

InitMain ==
    /\ files \in MainDisks
    /\ pc \in {"main", "extract_main"}
    /\ month = FirstMonth
    /\ i = 0
    /\ current_day = <<>>
    /\ last_clock_time = <<>>
    /\ data_list = <<>>
    /\ src_row = <<>>
    /\ all_dataframes = <<>>
    /\ output = <<>>
    /\ tl = <<>>
    /\ tbase = <<>>
    /\ tcarry = <<>>
    /\ tres = <<>>

NextMain ==
    \/ Next
    \/ ExtractFileMissing
    \/ ExtractReadFails
    \/ ExtractParse
    \/ ExtractParseRaises
    \/ ExtractWriteCsv
    \/ ExtractNoData

SpecMain == InitMain /\ [][NextMain]_vars

----------------------------------------------------------------------------
(* Properties.  What they share: *)

\* the row loop of parse_calendar_html is running, or was left by an exception
InLoop == pc \in {"parse", "aborted"}

\* the page of month m has been parsed to its end and main is at the next month
Parsed(m) == pc = "main" /\ month = m + 1 /\ files[m].exists /\ files[m].readable

\* hour, minute and second written in an ISO text, and what follows them
IsoDate(iso) == <<ToInt(SubSeq(iso, 1, 4)), ToInt(SubSeq(iso, 6, 7)), ToInt(SubSeq(iso, 9, 10))>>

IsoClock(iso) == <<ToInt(SubSeq(iso, 12, 13)), ToInt(SubSeq(iso, 15, 16))>>

IsoSecond(iso) == ToInt(SubSeq(iso, 18, 19))

IsoOffset(iso) == SubSeq(iso, 20, Len(iso))

\* '2025-06-05T17:00:00-08:00'
T_ExampleDateTime == <<"2","0","2","5","-","0","6","-","0","5","T","1","7",":","0","0",":","0","0","-","0","8",":","0","0">>

\* '-08:00'
T_Minus0800 == <<"-","0","8",":","0","0">>

\* the record of the end-to-end example
IsExampleRecord(rec) ==
    /\ rec.DateTime = T_ExampleDateTime
    /\ rec.Currency = T_USD
    /\ rec.Impact = T_HighImpact
    /\ rec.Event = T_NFP
    /\ rec.Actual = T_180K
    /\ rec.Forecast = T_190K
    /\ rec.Previous = T_175K

(* C1 as stated: the day breaker "Jun 5" followed by the 8-cell data row      *)
(* ["5:00pm","USD","High Impact Expected","Non-Farm Payrolls","","180K",      *)
(* "175K","190K"] yields exactly one record, the record of the example.       *)
C1_Stated ==
    (Parsed(FirstMonth) /\ RowNamesOf(FirstMonth) = <<"jun5", "example8">>)
        => (Len(data_list) = 1 /\ IsExampleRecord(data_list[1]))

(* C1 amended: that 8-cell row yields no record (the previous value is read   *)
(* at cell offset 8, which the row does not have, and the row is skipped);    *)
(* the record of the example is what the same event yields when it is laid    *)
(* out as a regular 10-cell row and the page's impact map gives its event id  *)
(* "High Impact Expected".                                                    *)
C1_ExampleRow ==
    Parsed(FirstMonth) =>
        /\ RowNamesOf(FirstMonth) = <<"jun5", "example8">> => data_list = <<>>
        /\ RowNamesOf(FirstMonth) = <<"jun5", "example10">> =>
               (Len(data_list) = 1 /\ IsExampleRecord(data_list[1]))

C1_Witness ==
    /\ Parsed(FirstMonth)
    /\ RowNamesOf(FirstMonth) = <<"jun5", "example8">>
    /\ current_day /= <<>>
    /\ i = 2
    /\ data_list = <<>>

\* what a valid label H:MM(am|pm) means on a 24-hour clock
Clock24(h, isPm) ==
    IF isPm THEN (IF h = 12 THEN 12 ELSE h + 12) ELSE (IF h = 12 THEN 0 ELSE h)

\* the label's letters before the colon are those of hour h
SpellsHour(label, h) == SubSeq(label, 1, Len(label) - 5) = HourText(h)

\* the label's letters between the colon and am/pm are those of minute m
SpellsMinute(label, m) == SubSeq(label, Len(label) - 3, Len(label) - 2) = Pad2(m)

IsPmLabel(label) == label[Len(label) - 1] \in {"p", "P"}

\* each script's map from (hour 1..12, am/pm) to the 24-hour hour is one-to-one
\* and onto 0..23
HourMapsAreBijections ==
    \A conv \in {[x \in (1..12) \X {"am", "pm"} |-> HtmlHour24(x[1], x[2])],
                 [x \in (1..12) \X {"am", "pm"} |-> LocHour24(x[1], x[2])],
                 [x \in (1..12) \X {"am", "pm"} |-> ExtractHour24(x[1], x[2])]} :
        /\ {conv[x] : x \in DOMAIN conv} = 0..23
        /\ \A x, y \in DOMAIN conv : conv[x] = conv[y] => x = y

(* C2: for every label H:MM(am|pm) with hour 1..12 and minute 0..59, in any   *)
(* letter case, each of the three scripts gives hour 0 for 12am, h for h am,  *)
(* 12 for 12pm and h+12 for h pm, and leaves the minute as it is; each        *)
(* script's map from (hour, am/pm) to the 24-hour hour is one-to-one and onto *)
(* 0..23.                                                                     *)
C2_ClockConversion ==
    (tres /= <<>> /\ tl \in ValidClockLabels) =>
        /\ ~tres[1].raised
        /\ \A h \in 1..12 :
               SpellsHour(tl, h) =>
                   \A m \in 0..59 :
                       SpellsMinute(tl, m) =>
                           IsoClock(tres[1].iso) = <<Clock24(h, IsPmLabel(tl)), m>>
        /\ HourMapsAreBijections

C2_Witness ==
    /\ tres /= <<>>
    /\ tres[1].script = "loc"
    /\ SpellsHour(tl, 12)
    /\ SpellsMinute(tl, 30)
    /\ tl \in ValidClockLabels
    /\ ~IsPmLabel(tl)
    /\ IsoClock(tres[1].iso) = <<0, 30>>

----------------------------------------------------------------------------
(* Properties of the row loop.  Rows are those of the page being parsed;     *)
(* row k has been processed when k <= i.                                      *)

\* row k put a record in data_list, and that record
Emitted(k) == \E n \in 1..Len(src_row) : src_row[n] = k

RecOf(k) == data_list[CHOOSE n \in 1..Len(src_row) : src_row[n] = k]

ClockOfRow(k) == IsoClock(RecOf(k).DateTime)

\* the time label of row k, trimmed
LabelOf(k) ==
    LET row == RowAt(month, k)
    IN Strip(row.cells[(IF HtmlHasDateCol(row) THEN 1 ELSE 0) + 1])

IsClockLabel(label) == TimeMatch(Lower(label)) /= <<>>

\* row k is a day-breaker row, and one whose text gives a valid day of the month
IsBreaker(k) == HtmlIsDayBreaker(RowAt(month, k))

DayNumberOf(k) == DaySearch(MonthAbbr(month), RowText(RowAt(month, k)))

SetsDay(k) ==
    /\ IsBreaker(k)
    /\ DayNumberOf(k) /= <<>>
    /\ ToInt(DayNumberOf(k)[1]) \in 1..DaysInMonth(Year, month)

\* the greatest member of a set of row indices, 0 if there is none
Latest(S) == IF S = {} THEN 0 ELSE CHOOSE k \in S : \A j \in S : j <= k

\* the last row before k that set the day, 0 if none
LastDaySetter(k) == Latest({j \in 1..(k - 1) : SetsDay(j)})

\* the last day-breaker row before k, 0 if none
LastBreaker(k) == Latest({j \in 1..(k - 1) : IsBreaker(j)})

\* the last row before k, since the day was set, that gave a record and whose
\* label was parsed as a clock time; 0 if none
LastParsedClock(k) ==
    Latest({j \in (LastDaySetter(k) + 1)..(k - 1) : Emitted(j) /\ IsClockLabel(LabelOf(j))})

\* the same, counting "All Day" rows too
LastClockSetter(k) ==
    Latest({j \in (LastDaySetter(k) + 1)..(k - 1) :
              Emitted(j) /\ (IsClockLabel(LabelOf(j)) \/ LabelOf(j) = AllDayText)})

\* CarryTime when row k is processed, (0,0) standing for unset
CarryBefore(k) ==
    IF LastClockSetter(k) = 0 THEN <<0, 0>> ELSE ClockOfRow(LastClockSetter(k))

(* C3 as stated: a row whose label is present but is no H:MM(am|pm) gets the  *)
(* time of the nearest preceding row of its day whose label was parsed as     *)
(* H:MM(am|pm), whatever lies between them, and 00:00 if there is none.       *)
(* (Read for the rows that are not themselves "All Day" rows, whose 00:00 is  *)
(* another claim's.)                                                          *)
C3_Stated ==
    InLoop =>
        \A k \in 1..i :
            (/\ Emitted(k)
             /\ LabelOf(k) /= <<>>
             /\ LabelOf(k) /= AllDayText
             /\ ~IsClockLabel(LabelOf(k))) =>
                ClockOfRow(k) = IF LastParsedClock(k) = 0 THEN <<0, 0>>
                                ELSE ClockOfRow(LastParsedClock(k))

(* C3 amended: a row whose label is present, is not "All Day" and is no       *)
(* H:MM(am|pm) gets the current CarryTime: the time of the nearest preceding  *)
(* row, since the day was set, whose label was parsed as H:MM(am|pm) or was   *)
(* "All Day" (which sets 00:00), whatever "Tentative", empty or other         *)
(* unparsed labels lie between them; 00:00 if there is no such row.           *)
C3_UnparsedLabelGetsCarry ==
    InLoop =>
        \A k \in 1..i :
            (/\ Emitted(k)
             /\ LabelOf(k) /= <<>>
             /\ LabelOf(k) /= AllDayText
             /\ ~IsClockLabel(LabelOf(k))) =>
                ClockOfRow(k) = CarryBefore(k)

C3_Witness ==
    /\ InLoop
    /\ RowNamesOf(month) = <<"jun5", "t_5pm", "t_tentative", "t_day1">>
    /\ i = 4
    /\ Emitted(4)
    /\ ClockOfRow(4) = <<17, 0>>

(* C4: a row with an empty time label gets the current CarryTime: 00:00 when  *)
(* no row has set a time since the day was last set (a time of an earlier     *)
(* day is never inherited), else the last time set, with second 0.            *)
C4_EmptyLabelGetsCarry ==
    InLoop =>
        \A k \in 1..i :
            (Emitted(k) /\ LabelOf(k) = <<>>) =>
                /\ ClockOfRow(k) = CarryBefore(k)
                /\ IsoSecond(RecOf(k).DateTime) = 0
                /\ LastClockSetter(k) = 0 => ClockOfRow(k) = <<0, 0>>

C4_Witness ==
    /\ InLoop
    /\ RowNamesOf(month) = <<"jun5", "t_5pm", "jun6", "t_none">>
    /\ i = 4
    /\ Emitted(2)
    /\ ClockOfRow(2) = <<17, 0>>
    /\ Emitted(4)
    /\ ClockOfRow(4) = <<0, 0>>

(* C6 as stated: when a day-breaker row gives no valid day number, DayAnchor  *)
(* becomes unset, and no row gives a record until a later day-breaker row     *)
(* sets the day: every record's last preceding day-breaker row set the day.   *)
C6_Stated ==
    InLoop =>
        /\ (i >= 1 /\ IsBreaker(i) /\ ~SetsDay(i)) => current_day = <<>>
        /\ \A k \in 1..i : Emitted(k) => LastBreaker(k) = LastDaySetter(k)

\* the event-name cell of a row of at least 5 cells, trimmed
EventCell(row) == Strip(row.cells[(IF HtmlHasDateCol(row) THEN 4 ELSE 3) + 1])

\* the loop is at a row that is no day breaker
AtDataRow == pc = "parse" /\ i < NumRows /\ ~HtmlIsDayBreaker(CurRow)

NoRecord == data_list' = data_list

OneRecord ==
    /\ Len(data_list') = Len(data_list) + 1
    /\ SubSeq(data_list', 1, Len(data_list)) = data_list

\* the label is H:MM(am|pm) with an hour or a minute no clock has
ClockOverflows(label) ==
    /\ IsClockLabel(label)
    /\ LET m == TimeMatch(Lower(label))[1]
       IN m.hh > 23 \/ m.mm > 59

(* C7 as stated: a row that is no day breaker gives no record exactly when    *)
(* DayAnchor is unset, or it has fewer than 5 cells, or its event-name cell   *)
(* is empty after trimming; every other such row gives exactly one record.    *)
(* (Read for the rows whose time label does not end the parse with an error,  *)
(* which is another claim's.)                                                 *)
C7_Stated ==
    [][(AtDataRow /\ pc' /= "aborted") =>
          IF \/ current_day = <<>>
             \/ Len(CurRow.cells) < 5
             \/ EventCell(CurRow) = <<>>
          THEN NoRecord ELSE OneRecord]_vars

(* C7 amended: a row that is no day breaker gives no record exactly when      *)
(* DayAnchor is unset, or it has fewer cells than its layout reads (9 without *)
(* a date column, 10 with one), or its event-name cell is empty after         *)
(* trimming, or its time label is an H:MM(am|pm) with an hour above 23 or a   *)
(* minute above 59 (the parse then ends with an error); every other such row  *)
(* gives exactly one record.                                                  *)
C7_RowGivesRecord ==
    [][AtDataRow =>
          IF \/ current_day = <<>>
             \/ Len(CurRow.cells) < (IF HtmlHasDateCol(CurRow) THEN 10 ELSE 9)
             \/ EventCell(CurRow) = <<>>
             \/ ClockOverflows(LabelOf(i + 1))
          THEN NoRecord ELSE OneRecord]_vars

C7_Witness ==
    /\ InLoop
    /\ i = 3
    /\ RowNamesOf(month) = <<"jun5", "example8", "newday10">>
    /\ current_day /= <<>>
    /\ src_row = <<3>>

(* C8 as stated: no time label ends the parse of the page or the run with an  *)
(* error: every row is skipped or gets a time, and the rows and pages after   *)
(* it are processed.                                                          *)
C8_Stated == pc /= "aborted"

(* C9: every record has the date of the last preceding day-breaker row that   *)
(* set the day, and its time is the one parsed from its own label (00:00 for  *)
(* "All Day") or else the CarryTime at that row.                              *)
C9_RecordDateAndTime ==
    InLoop =>
        \A k \in 1..i :
            Emitted(k) =>
                /\ LastDaySetter(k) >= 1
                /\ IsoDate(RecOf(k).DateTime)
                       = <<Year, month, ToInt(DayNumberOf(LastDaySetter(k))[1])>>
                /\ IF IsClockLabel(LabelOf(k))
                   THEN LET m == TimeMatch(Lower(LabelOf(k)))[1]
                        IN ClockOfRow(k) = <<Clock24(m.hh, m.ampm = "pm"), m.mm>>
                   ELSE IF LabelOf(k) = AllDayText
                   THEN ClockOfRow(k) = <<0, 0>>
                   ELSE ClockOfRow(k) = CarryBefore(k)

C9_Witness ==
    /\ InLoop
    /\ RowNamesOf(month) = <<"jun5", "t_5pm", "jun6", "t_day1">>
    /\ i = 4
    /\ Emitted(4)
    /\ IsoDate(RecOf(4).DateTime) = <<Year, FirstMonth, 6>>
    /\ IsoDate(RecOf(2).DateTime) = <<Year, FirstMonth, 5>>

----------------------------------------------------------------------------
(* Properties of the time step *)

Done(script) == tres /= <<>> /\ tres[1].script = script /\ ~tres[1].raised

IsMidnight(iso) == IsoClock(iso) = <<0, 0>> /\ IsoSecond(iso) = 0

(* C5 as stated: for the labels "All Day", "Tentative", "Day 1", "Day 2" and  *)
(* "Day 3" the time of day is 00:00:00 whatever CarryTime is, in              *)
(* extract_html_to_csv and in html_to_csv.                                    *)
C5_Stated ==
    (tres /= <<>> /\ tres[1].script \in {"html", "extract"} /\ tl \in MidnightLabels) =>
        (~tres[1].raised /\ IsMidnight(tres[1].iso))

(* C5 amended: in extract_html_to_csv the five labels give 00:00:00; in       *)
(* html_to_csv "All Day" gives 00:00:00 whatever CarryTime is, and            *)
(* "Tentative", "Day 1", "Day 2", "Day 3" give the current CarryTime, which   *)
(* is 00:00:00 only when it is unset or (0,0).                                *)
C5_MidnightLabels ==
    (tres /= <<>> /\ tl \in MidnightLabels) =>
        /\ Done("extract") => IsMidnight(tres[1].iso)
        /\ (Done("html") /\ tl = AllDayText) => IsMidnight(tres[1].iso)
        /\ (Done("html") /\ tl /= AllDayText) =>
               /\ IsoClock(tres[1].iso) = IF tcarry = <<>> THEN <<0, 0>> ELSE tcarry
               /\ IsoSecond(tres[1].iso) = 0
        /\ tres[1].script \in {"html", "extract"} => ~tres[1].raised

C5_Witness ==
    /\ Done("html")
    /\ tl = AllDayText
    /\ tcarry = <<17, 0>>
    /\ IsMidnight(tres[1].iso)

(* C10 as stated: every DateTime any of the three scripts writes ends in      *)
(* "-08:00", for every date of the year and every label.                      *)
C10_Stated ==
    (tres /= <<>> /\ ~tres[1].raised) => IsoOffset(tres[1].iso) = T_Minus0800

(* C10 amended: every DateTime html_to_csv and extract_html_to_csv write ends *)
(* in "-08:00", for every date of the year and every label; loc_scraper       *)
(* attaches no zone and its DateTime ends after the seconds, with no offset.  *)
C10_FixedOffset ==
    /\ (Done("html") \/ Done("extract")) =>
           (Len(tres[1].iso) = 25 /\ IsoOffset(tres[1].iso) = T_Minus0800)
    /\ Done("loc") => (Len(tres[1].iso) = 19 /\ IsoOffset(tres[1].iso) = <<>>)

C10_Witness ==
    /\ Done("html")
    /\ tbase.month = 7
    /\ tbase.day = 15
    /\ tl = T_5_00pm
    /\ IsoOffset(tres[1].iso) = T_Minus0800

----------------------------------------------------------------------------
(* C11: the order of the rows written to the CSV *)

\* the CSV has been written by either script
Written == pc \in {"done", "extract_done"} /\ output /= <<>>

\* the records in the order main accumulated them: the frames of the documents
\* in month order, each in row order; extract_html_to_csv drops later duplicates
Accumulated ==
    IF pc = "extract_done" THEN DropDuplicates(Concat(all_dataframes))
    ELSE Concat(all_dataframes)

\* a sort by timestamp that keeps records of equal timestamp in their order
RECURSIVE StableSort(_)
StableSort(df) ==
    IF df = <<>> THEN <<>>
    ELSE LET rest == StableSort(Tail(df))
             before == {k \in 1..Len(rest) :
                          ToDatetime(rest[k].DateTime) < ToDatetime(Head(df).DateTime)}
             n == Cardinality(before)
         IN SubSeq(rest, 1, n) \o <<Head(df)>> \o SubSeq(rest, n + 1, Len(rest))

\* The first half of C11 on its own: the rows written are in non-decreasing
\* order of timestamp and are the accumulated records, each once.
C11_Ascending ==
    Written =>
        /\ \A k \in 1..(Len(output[1]) - 1) :
               ToDatetime(output[1][k].DateTime) <= ToDatetime(output[1][k + 1].DateTime)
        /\ Len(output[1]) = Len(Accumulated)
        /\ \A k \in 1..Len(Accumulated) : \E j \in 1..Len(output[1]) :
               output[1][j] = Accumulated[k]

\* C11 as stated: the rows written to the CSV by html_to_csv and by
\* extract_html_to_csv are in non-decreasing order of timestamp, and records of
\* equal timestamp are in the order in which they were accumulated (by month
\* of the document, then by row): the rows are the stable sort of the
\* accumulated records.  sort_values is called with its default kind,
\* quicksort, which does not keep that order.
C11_Stated == Written => output[1] = StableSort(Accumulated)

\* two records of one timestamp have been written in the other order
C11_TiesSwapped ==
    /\ Written
    /\ \E a, b \in 1..Len(Accumulated) :
          /\ a < b
          /\ Accumulated[a] /= Accumulated[b]
          /\ Accumulated[a].DateTime = Accumulated[b].DateTime
          /\ \E j, k \in 1..Len(output[1]) :
                j < k /\ output[1][j] = Accumulated[b] /\ output[1][k] = Accumulated[a]

----------------------------------------------------------------------------
(* C12: documents that are missing, unreadable or without records *)

\* the script that is running
IsExtractRun == pc \in {"extract_main", "extract_done", "extract_aborted"}

\* what html_to_csv.parse_calendar_html makes of the rows from the k-th on
RECURSIVE HtmlDataList(_, _, _, _, _)
HtmlDataList(rows, m, k, day, clock) ==
    IF k > Len(rows) THEN [raised |-> FALSE, data_list |-> <<>>]
    ELSE LET row == RowOf(rows[k])
         IN IF HtmlIsDayBreaker(row)
            THEN LET r == HtmlDayBreakerStep(row, Year, m, day, clock)
                 IN HtmlDataList(rows, m, k + 1, r[1], r[2])
            ELSE IF day = <<>> \/ HtmlExtract(row) = <<>>
            THEN HtmlDataList(rows, m, k + 1, day, clock)
            ELSE LET f == HtmlExtract(row)[1]
                     t == HtmlTimeStep(f.time_text, day[1], clock)
                     rest == HtmlDataList(rows, m, k + 1, day, t.last_clock_time)
                     rec == HtmlRecord(t.event_dt[1],
                                       ImpactLookup(files[m].impact_map, row.id), f)
                 IN IF t.raised \/ rest.raised THEN [raised |-> TRUE, data_list |-> <<>>]
                    ELSE [raised |-> FALSE, data_list |-> <<rec>> \o rest.data_list]

\* what the document of month m yields to the running script
Yield(m) ==
    IF ~files[m].exists \/ ~files[m].readable THEN [raised |-> FALSE, data_list |-> <<>>]
    ELSE IF IsExtractRun THEN ExtractDataList(files[m].events)
    ELSE HtmlDataList(CalendarRows(files[m]), m, 1, <<>>, <<>>)

\* the document of month m is missing, unreadable or yields zero records
Skipped(m) == ~Yield(m).raised /\ Yield(m).data_list = <<>>

\* the frames of the documents before month k that yield records, in month order
RECURSIVE FramesBefore(_)
FramesBefore(k) ==
    IF k <= FirstMonth THEN <<>>
    ELSE IF Yield(k - 1).data_list /= <<>>
    THEN Append(FramesBefore(k - 1), Yield(k - 1).data_list)
    ELSE FramesBefore(k - 1)

SomeDocumentYields == \E m \in HtmlMonths : Yield(m).data_list /= <<>>

RunEnded == pc \in {"done", "extract_done", "aborted", "extract_aborted"}

\* C12 as stated: in main of html_to_csv and of extract_html_to_csv, whichever
\* of the seven documents are missing, unreadable or without records, each of
\* them is skipped and every other document is still processed, in month
\* order (the frames collected are those of the documents that yield records,
\* in month order); and when the run ends, the CSV has been written if and only
\* if at least one document yielded at least one record.
C12_Stated ==
    /\ all_dataframes = FramesBefore(month)
    /\ RunEnded =>
          /\ all_dataframes = FramesBefore(LastMonth + 1)
          /\ (output /= <<>>) <=> SomeDocumentYields

\* What holds of the code: skipped documents never end the run and never
\* lose a frame.  A run ends before the last document only at a document
\* whose parse raises; a run that reaches the end of the loop has collected
\* the frame of every document that yields records, in month order, and has
\* written the CSV if and only if there is such a document (otherwise it
\* has printed its error line and written nothing).
C12_SkipsAndWrites ==
    /\ all_dataframes = FramesBefore(month)
    /\ pc \in {"done", "extract_done"} =>
          /\ month = LastMonth + 1
          /\ (output /= <<>>) <=> SomeDocumentYields
    /\ pc \in {"aborted", "extract_aborted"} => Yield(month).raised

\* a run over a disk with skipped documents of all three kinds and a document
\* that yields records after a skipped one has written the CSV
C12_WrittenAfterSkips ==
    /\ pc \in {"done", "extract_done"}
    /\ output /= <<>>
    /\ \E a, b, c, g \in HtmlMonths :
          /\ ~files[a].exists
          /\ files[b].exists /\ ~files[b].readable
          /\ files[c].exists /\ files[c].readable /\ Skipped(c)
          /\ a < g /\ b < g /\ c < g
          /\ Yield(g).data_list /= <<>>

\* a run over seven skipped documents has ended without a file
C12_NothingWritten ==
    /\ pc \in {"done", "extract_done"}
    /\ output = <<>>
    /\ \A m \in HtmlMonths : Skipped(m)
    /\ \E m \in HtmlMonths : files[m].exists

\* a run has ended at a document whose parse raises, after a document that
\* yielded records: nothing is written
C12_EndedByRaise ==
    /\ pc \in {"aborted", "extract_aborted"}
    /\ all_dataframes /= <<>>
    /\ output = <<>>

====
